---- MODULE Spec2Model ----
(***************************************************************************)
(* A model of the neardup library (src/src/lib.rs): the RollingHash        *)
(* accumulator, the two n-gram fingerprint generators, weighted_jaccard    *)
(* and the three duplicate scanners.                                       *)
(*                                                                         *)
(* Number representation.  TLC's integers are 32 bits wide, the program's  *)
(* are u64 / usize.  A 64-bit unsigned value is written here as an         *)
(* integer v with |v| < 2^31:  v >= 0 stands for v itself and v < 0 for    *)
(* 2^64 + v (what `-1i32 as u64` or a wrapped `3usize - 5` produce).       *)
(* Products and sums that may leave the 64-bit range are computed exactly  *)
(* on little-endian byte sequences.                                        *)
(*                                                                         *)
(* An f64 quotient of two small counts is written as the reduced fraction  *)
(* <<num, den>>: for counts this small distinct fractions are distinct     *)
(* doubles and the order of the doubles is the order of the fractions.     *)
(***************************************************************************)
EXTENDS Integers, Sequences, FiniteSets, TLC

VARIABLES
    overflow_checks,      \* the build: TRUE = overflow panics (debug), FALSE = wraps (release)
    text1, text2, sim,    \* one call of weighted_jaccard and its result
    x, appended, slid,    \* a symbol stream fed to a RollingHash: appends and slides done
    rollinghash,          \* the RollingHash accumulator in use
    rh_fault,             \* whether an append/slide of the stream panicked
    text, ngrams,         \* one call of ngram / ngram_rolling each, and their outcomes
    doc, query, n, threshold,   \* the inputs of the scans
    given,                \* where the scans' fingerprint sets come from
    fx_collide,           \* whether the direct hash collides on this run's windows
    query_ngram,          \* the fingerprint set handed to has_doc_duplicate
    query_ngram_rolling,  \* the fingerprint set handed to has_doc_duplicate_rolling
    call, at,             \* the scanner being run and the position inside it
    limit, start, s,      \* the outer range's end, the outer and the inner loop variable
    probed, scored,       \* this call's log: positions tested, windows scored
    result                \* each scanner's outcome

vars == <<overflow_checks, text1, text2, sim, x, appended, slid, rollinghash,
          rh_fault, text, ngrams, doc, query, n, threshold, given, fx_collide,
          query_ngram, query_ngram_rolling, call, at, limit, start, s, probed,
          scored, result>>

(***************************************************************************)
(* Bounds of the model.                                                    *)
(***************************************************************************)
MaxDocLen == 4
MaxQueryLen == 3
MaxN == 3
MaxSpanLen == 4
MaxStreamLen == 4
MaxTextLen == 3
FxBuckets == 3

\* Token values (i32).  A negative token is what exercises the `as u64` cast.
Tokens == {-1, 1}
SpanTokens == {1, 2, 3}
StreamTokens == {-1, 1, 2}
Thresholds == {<<1, 3>>, <<1, 1>>}

SeqsUpTo(S, k) == UNION {[1..m -> S] : m \in 0..k}

Min(a, b) == IF a <= b THEN a ELSE b
Max(a, b) == IF a >= b THEN a ELSE b

(***************************************************************************)
(* Exact arithmetic on little-endian byte sequences.                       *)
(*                                                                         *)
(* An intermediate value that is used more than once is bound by a         *)
(* quantifier over a one-element set (v \in {e}) rather than by LET: TLC   *)
(* evaluates a bound variable once, and may evaluate a LET definition or   *)
(* an operator argument again at each use.  Only(S) is the element of the  *)
(* one-element set S.                                                      *)
(***************************************************************************)
Byte == 2^8

Only(S) == CHOOSE e \in S : TRUE

\* The eight bytes of the u64 written v (see the representation above).
Bytes(v) ==
    LET mag == IF v >= 0 THEN v ELSE -v - 1
        b(i) == IF i <= 4 THEN (mag \div Byte^(i-1)) % Byte ELSE 0
        c(i) == IF v >= 0 THEN b(i) ELSE Byte - 1 - b(i)
    IN  <<c(1), c(2), c(3), c(4), c(5), c(6), c(7), c(8)>>

\* The four bytes of an integer 0 <= v < 2^31.
Digits(v) == <<v % Byte, (v \div Byte) % Byte, (v \div Byte^2) % Byte, v \div Byte^3>>

At(a, i) == IF i >= 1 /\ i <= Len(a) THEN a[i] ELSE 0

RECURSIVE AddFrom(_, _, _, _, _)
AddFrom(a, b, i, carry, len) ==
    IF i > len THEN <<>>
    ELSE Only({<<t % Byte>> \o AddFrom(a, b, i + 1, t \div Byte, len) :
                  t \in {At(a, i) + At(b, i) + carry}})

\* a + b, one byte longer than the longer of the two.
BigAdd(a, b) ==
    Only({AddFrom(u, v, 1, 0, Max(Len(u), Len(v)) + 1) : u \in {a}, v \in {b}})

RECURSIVE ColSum(_, _, _, _)
ColSum(a, b, k, i) ==
    IF i > Len(a) THEN 0 ELSE At(a, i) * At(b, k + 1 - i) + ColSum(a, b, k, i + 1)

RECURSIVE MulFrom(_, _, _, _)
MulFrom(a, b, k, carry) ==
    IF k > Len(a) + Len(b) THEN <<>>
    ELSE Only({<<t % Byte>> \o MulFrom(a, b, k + 1, t \div Byte) :
                  t \in {ColSum(a, b, k, 1) + carry}})

\* a * b, as long as the two together.
BigMul(a, b) == Only({MulFrom(u, v, 1, 0) : u \in {a}, v \in {b}})

RECURSIVE DoubleMod(_, _, _)
DoubleMod(r, times, m) ==
    IF times = 0 THEN r
    ELSE Only({DoubleMod(d, times - 1, m) : d \in {(r + r) % m}})

RECURSIVE ModFrom(_, _, _, _)
ModFrom(a, i, r, m) ==
    IF i = 0 THEN r
    ELSE Only({ModFrom(a, i - 1, d, m) : d \in {(DoubleMod(r, 8, m) + (a[i] % m)) % m}})

\* a mod m for a modulus m < 2^30, as an integer.
BigMod(a, m) == Only({ModFrom(u, Len(u), 0, m) : u \in {a}})

Fits64(a) == \A i \in 9..Len(a) : a[i] = 0
Low64(a) == SubSeq(a, 1, 8)

(***************************************************************************)
(* usize arithmetic as the build performs it: [ok, val].  ok = FALSE is an *)
(* "attempt to subtract/add with overflow" panic (overflow checks on);     *)
(* with the checks off the value wraps.                                    *)
(***************************************************************************)
UsizeSub(a, b) ==
    IF a >= 0 /\ b >= 0 /\ a < b
    THEN [ok |-> ~overflow_checks, val |-> a - b]
    ELSE [ok |-> TRUE, val |-> a - b]

UsizeAdd(a, b) ==
    IF a < 0 /\ b >= 0 /\ a + b >= 0
    THEN [ok |-> ~overflow_checks, val |-> a + b]
    ELSE [ok |-> TRUE, val |-> a + b]

\* i < end for a small index i and a usize `end` (a wrapped end is huge).
UsizeLess(i, end) == end < 0 \/ i < end

(***************************************************************************)
(* f64                                                                     *)
(***************************************************************************)
RECURSIVE Gcd(_, _)
Gcd(a, b) == IF b = 0 THEN a ELSE Gcd(b, a % b)

\* `a as f64 / b as f64` for b > 0.
F64Div(a, b) == LET g == Gcd(a, b) IN <<a \div g, b \div g>>
F64Zero == <<0, 1>>
F64One == <<1, 1>>
\* sim >= threshold
F64Ge(a, b) == a[1] * b[2] >= b[1] * a[2]

(***************************************************************************)
(* weighted_jaccard                                                        *)
(***************************************************************************)
\* The mutant: every entry counts once (a set instead of a multiset).
RECURSIVE create_frequency_vector_once(_)
create_frequency_vector_once(set) ==
    IF set = <<>> THEN <<>>
    ELSE Only({[e \in DOMAIN fv \cup {set[Len(set)]} |-> 1] :
                  fv \in {create_frequency_vector_once(SubSeq(set, 1, Len(set) - 1))}})

\* HashMap<&i32, usize>: a function from the tokens present to their counts,
\* built by one pass over the span: *entry(element).or_insert(0) += 1.
RECURSIVE create_frequency_vector(_)
create_frequency_vector(set) ==
    IF set = <<>> THEN <<>>
    ELSE Only({[e \in DOMAIN fv \cup {set[Len(set)]} |->
                   (IF e \in DOMAIN fv THEN fv[e] ELSE 0)
                       + (IF e = set[Len(set)] THEN 1 ELSE 0)] :
                  fv \in {create_frequency_vector(SubSeq(set, 1, Len(set) - 1))}})

\* x.values().sum()
RECURSIVE sum_of_frequencies(_)
sum_of_frequencies(fv) ==
    IF DOMAIN fv = {} THEN 0
    ELSE Only({fv[e] + sum_of_frequencies([d \in DOMAIN fv \ {e} |-> fv[d]]) :
                  e \in {CHOOSE e \in DOMAIN fv : TRUE}})

\* The mutant: the larger of the two counts.
RECURSIVE intersection_frequency_max(_, _)
intersection_frequency_max(fx, fy) ==
    IF DOMAIN fx = {} THEN 0
    ELSE Only({(IF e \in DOMAIN fy THEN Max(fx[e], fy[e]) ELSE 0)
                   + intersection_frequency_max([d \in DOMAIN fx \ {e} |-> fx[d]], fy) :
                  e \in {CHOOSE e \in DOMAIN fx : TRUE}})

\* for (element, frequency1) in &x { if let Some(frequency2) = y.get(element)
\*     { intersection_frequency += frequency1.min(frequency2) } }
RECURSIVE intersection_frequency(_, _)
intersection_frequency(fx, fy) ==
    IF DOMAIN fx = {} THEN 0
    ELSE Only({(IF e \in DOMAIN fy THEN Min(fx[e], fy[e]) ELSE 0)
                   + intersection_frequency([d \in DOMAIN fx \ {e} |-> fx[d]], fy) :
                  e \in {CHOOSE e \in DOMAIN fx : TRUE}})

\* union_frequency and the quotient, from the intersection's weight.
jaccard_quotient(inter, sum_x, sum_y) ==
    IF sum_x + sum_y - inter > 0 THEN F64Div(inter, sum_x + sum_y - inter) ELSE F64Zero

weighted_jaccard(t1, t2) ==
    Only({jaccard_quotient(intersection_frequency(fx, fy),
                           sum_of_frequencies(fx), sum_of_frequencies(fy)) :
             fx \in {create_frequency_vector(t1)}, fy \in {create_frequency_vector(t2)}})

(***************************************************************************)
(* RollingHash                                                             *)
(***************************************************************************)
base == 31
modulo == 1000000007

\* RollingHash::new().  hash and base_power stay below modulo after every
\* operation, so they are kept as plain integers.
new == [hash |-> 0, base_power |-> 1, window_size |-> 0]

\* `*v as u64` of an i32: the 64 bits of its sign extension.  Symbols are
\* kept as their eight bytes.
as_u64(v) == Bytes(v)

\* hash * base + symbol in u64, reduced mod modulo: [ok, fits, val].  fits
\* says whether the exact value stays in the 64-bit range, ok = FALSE that it
\* does not and the build panics on that; val is the result of the (then
\* wrapped) value mod modulo.
MulAddMod(h, symbol) ==
    Only({[ok |-> Fits64(wide) \/ ~overflow_checks,
           fits |-> Fits64(wide),
           val |-> BigMod(Low64(wide), modulo)] :
             wide \in {BigAdd(BigMul(Digits(h), Digits(base)), symbol)}})

\* base_power * base mod modulo (below 2^64: both factors are below 2^30).
NextPower(power) == BigMod(BigMul(Digits(power), Digits(base)), modulo)

\* The mutant of append: the stored power is multiplied on the first symbol too.
append_power_off(rh, char) ==
    Only({[ok |-> r.ok, fits |-> r.fits,
           rh |-> [hash |-> r.val,
                   base_power |-> NextPower(rh.base_power),
                   window_size |-> rh.window_size + 1]] :
             r \in {MulAddMod(rh.hash, char)}})

\* RollingHash::append: [ok, fits, rh].
append(rh, char) ==
    Only({[ok |-> r.ok, fits |-> r.fits,
           rh |-> [hash |-> r.val,
                   base_power |-> IF rh.window_size + 1 = 1 THEN 1
                                  ELSE NextPower(rh.base_power),
                   window_size |-> rh.window_size + 1]] :
             r \in {MulAddMod(rh.hash, char)}})

\* The mutant of slide: the evicted symbol is taken at power base^0.
slide_no_power(rh, old_char, new_char) ==
    Only({[ok |-> r.ok, fits |-> r.fits, rh |-> [rh EXCEPT !.hash = r.val]] :
             r \in {MulAddMod(((rh.hash + modulo) - BigMod(old_char, modulo)) % modulo,
                              new_char)}})

\* RollingHash::slide: [ok, fits, rh].  old_char * base_power may leave the
\* 64-bit range; hash + modulo - (..) % modulo does not (hash < modulo).
slide(rh, old_char, new_char) ==
    Only({Only({[ok |-> (Fits64(prod) \/ ~overflow_checks) /\ r.ok,
                 fits |-> Fits64(prod) /\ r.fits,
                 rh |-> [rh EXCEPT !.hash = r.val]] :
                   r \in {MulAddMod(((rh.hash + modulo) - BigMod(Low64(prod), modulo))
                                        % modulo,
                                    new_char)}}) :
             prod \in {BigMul(old_char, Digits(rh.base_power))}})

\* for c in symbols { rolling_hash.append(c) }: [ok, fits, rh].
RECURSIVE append_all(_, _)
append_all(rh, symbols) ==
    IF symbols = <<>> THEN [ok |-> TRUE, fits |-> TRUE, rh |-> rh]
    ELSE Only({IF ~r.ok THEN r
               ELSE Only({[t EXCEPT !.fits = r.fits /\ t.fits] :
                             t \in {append_all(r.rh, Tail(symbols))}}) :
                  r \in {append(rh, symbols[1])}})

get_hash(rh) == rh.hash

(***************************************************************************)
(* The fingerprint generators                                              *)
(***************************************************************************)
AllTokens == Tokens \cup SpanTokens \cup StreamTokens
MinToken == CHOOSE t \in AllTokens : \A u \in AllTokens : t <= u
MaxToken == CHOOSE t \in AllTokens : \A u \in AllTokens : t >= u
FxRadix == MaxToken - MinToken + 2

\* An order-sensitive code of a window, one-to-one on the windows of the model.
RECURSIVE WindowCode(_)
WindowCode(w) ==
    IF w = <<>> THEN 0
    ELSE WindowCode(SubSeq(w, 1, Len(w) - 1)) * FxRadix + (w[Len(w)] - MinToken + 1)

\* fxhash::hash(&window): a deterministic, order-sensitive hash of the
\* window's contents.  The crate is not part of the repository; a run either
\* has no collision among its windows or hashes them into FxBuckets values.
fxhash(w) == IF fx_collide THEN WindowCode(w) % FxBuckets ELSE WindowCode(w)

\* &text[i..j] with 0-based i: [ok, val]; ok = FALSE is the slice panic.
Slice(seq, i, j) ==
    IF i >= 0 /\ i <= j /\ j <= Len(seq)
    THEN [ok |-> TRUE, val |-> SubSeq(seq, i + 1, j)]
    ELSE [ok |-> FALSE, val |-> <<>>]

\* 0..text.len() - n + 1: [ok, val].
NgramEnd(txt, width) ==
    Only({IF ~d.ok THEN d ELSE UsizeAdd(d.val, 1) : d \in {UsizeSub(Len(txt), width)}})

RECURSIVE NgramFrom(_, _, _, _)
NgramFrom(txt, width, i, end) ==
    IF ~UsizeLess(i, end) THEN [ok |-> TRUE, set |-> {}]
    ELSE Only({IF ~w.ok THEN [ok |-> FALSE, set |-> {}]
               ELSE Only({[ok |-> rest.ok, set |-> {fxhash(w.val)} \cup rest.set] :
                             rest \in {NgramFrom(txt, width, i + 1, end)}}) :
                  w \in {Slice(txt, i, i + width)}})

\* ngram(text, n): [ok, set]; ok = FALSE is a panic.
ngram(txt, width) ==
    Only({IF ~end.ok THEN [ok |-> FALSE, set |-> {}]
          ELSE NgramFrom(txt, width, 0, end.val) :
             end \in {NgramEnd(txt, width)}})

\* The body of ngram_rolling's loop: a RollingHash primed with the window.
RECURSIVE NgramRollingFrom(_, _, _, _)
NgramRollingFrom(txt, width, i, end) ==
    IF ~UsizeLess(i, end) THEN [ok |-> TRUE, set |-> {}]
    ELSE Only({IF ~w.ok THEN [ok |-> FALSE, set |-> {}]
               ELSE Only({IF ~h.ok THEN [ok |-> FALSE, set |-> {}]
                          ELSE [ok |-> rest.ok, set |-> {h.rh.hash} \cup rest.set] :
                             h \in {append_all(new, w.val)},
                             rest \in {NgramRollingFrom(txt, width, i + 1, end)}}) :
                  w \in {Slice([k \in DOMAIN txt |-> as_u64(txt[k])], i, i + width)}})

\* ngram_rolling(text, n): [ok, set]; ok = FALSE is a panic.
ngram_rolling(txt, width) ==
    Only({IF ~end.ok THEN [ok |-> FALSE, set |-> {}]
          ELSE NgramRollingFrom(txt, width, 0, end.val) :
             end \in {NgramEnd(txt, width)}})

(***************************************************************************)
(* Idle values of the parts a specification does not exercise.             *)
(***************************************************************************)
NoCall == [called |-> FALSE, ok |-> TRUE, set |-> {}]
IdleJaccard == text1 = <<>> /\ text2 = <<>> /\ sim = [called |-> FALSE, val |-> F64Zero]
IdleStream == x = <<>> /\ appended = 0 /\ slid = 0 /\ rh_fault = FALSE
IdleNgram == text = <<>> /\ ngrams = [fx |-> NoCall, rolling |-> NoCall]
IdleScan ==
    /\ doc = <<>> /\ query = <<>> /\ threshold = F64One /\ given = "none"
    /\ query_ngram = NoCall /\ query_ngram_rolling = NoCall
    /\ call = "none" /\ at = "none" /\ limit = 0 /\ start = 0 /\ s = 0
    /\ probed = <<>> /\ scored = <<>>
    /\ result = [v \in {"naive", "fx", "rolling"} |-> "none"]

jaccardVars == <<text1, text2, sim>>
streamVars == <<x, appended, slid, rh_fault>>
ngramVars == <<text, ngrams>>
scanVars == <<doc, query, threshold, given, query_ngram, query_ngram_rolling,
              call, at, limit, start, s, probed, scored, result>>

(***************************************************************************)
(* SpecJaccard: one call of weighted_jaccard on two spans.                 *)
(***************************************************************************)
InitJaccard ==
    /\ text1 \in SeqsUpTo(SpanTokens, MaxSpanLen)
    /\ text2 \in SeqsUpTo(SpanTokens, MaxSpanLen)
    /\ sim = [called |-> FALSE, val |-> F64Zero]
    /\ overflow_checks \in BOOLEAN
    /\ n = 1 /\ fx_collide = FALSE /\ rollinghash = new
    /\ IdleStream /\ IdleNgram /\ IdleScan

CallWeightedJaccard ==
    /\ ~sim.called
    /\ given = "none" /\ x = <<>>
    /\ sim' = [called |-> TRUE, val |-> weighted_jaccard(text1, text2)]
    /\ UNCHANGED <<overflow_checks, text1, text2, n, fx_collide, rollinghash,
                   streamVars, ngramVars, scanVars>>

SpecJaccard == InitJaccard /\ [][CallWeightedJaccard]_vars

(***************************************************************************)
(* SpecStream: a RollingHash primed with the first n symbols of a stream   *)
(* and then slid along it.                                                 *)
(***************************************************************************)
InitStream ==
    /\ x \in {[k \in DOMAIN t |-> as_u64(t[k])] :
                 t \in {t \in SeqsUpTo(StreamTokens, MaxStreamLen) : Len(t) >= 2}}
    /\ n \in 1..MaxStreamLen
    /\ n < Len(x)
    /\ appended = 0 /\ slid = 0 /\ rh_fault = FALSE
    /\ rollinghash = new
    /\ overflow_checks \in BOOLEAN
    /\ fx_collide = FALSE
    /\ IdleJaccard /\ IdleNgram /\ IdleScan

AppendSymbol ==
    /\ x # <<>> /\ ~rh_fault /\ appended < n
    /\ LET r == append(rollinghash, x[appended + 1])
       IN  IF r.ok
           THEN rollinghash' = r.rh /\ appended' = appended + 1 /\ rh_fault' = FALSE
           ELSE rh_fault' = TRUE /\ UNCHANGED <<rollinghash, appended>>
    /\ UNCHANGED <<overflow_checks, x, slid, n, fx_collide,
                   jaccardVars, ngramVars, scanVars>>

SlideStream ==
    /\ x # <<>> /\ ~rh_fault /\ appended = n /\ slid + n < Len(x)
    /\ LET r == slide(rollinghash, x[slid + 1], x[slid + n + 1])
       IN  IF r.ok
           THEN rollinghash' = r.rh /\ slid' = slid + 1 /\ rh_fault' = FALSE
           ELSE rh_fault' = TRUE /\ UNCHANGED <<rollinghash, slid>>
    /\ UNCHANGED <<overflow_checks, x, appended, n, fx_collide,
                   jaccardVars, ngramVars, scanVars>>

NextStream == AppendSymbol \/ SlideStream

SpecStream == InitStream /\ [][NextStream]_vars

(***************************************************************************)
(* SpecNgram: one call each of ngram and ngram_rolling on a text.          *)
(***************************************************************************)
InitNgram ==
    /\ text \in SeqsUpTo(Tokens, MaxTextLen)
    /\ n \in 1..MaxN
    /\ ngrams = [fx |-> NoCall, rolling |-> NoCall]
    /\ overflow_checks \in BOOLEAN
    /\ fx_collide \in BOOLEAN
    /\ rollinghash = new
    /\ IdleJaccard /\ IdleStream /\ IdleScan

CallNgram ==
    /\ given = "none" /\ x = <<>> /\ ~ngrams.fx.called
    /\ LET r == ngram(text, n)
       IN  ngrams' = [ngrams EXCEPT !.fx = [called |-> TRUE, ok |-> r.ok, set |-> r.set]]
    /\ UNCHANGED <<overflow_checks, text, n, fx_collide, rollinghash,
                   jaccardVars, streamVars, scanVars>>

CallNgramRolling ==
    /\ given = "none" /\ x = <<>> /\ ~ngrams.rolling.called
    /\ LET r == ngram_rolling(text, n)
       IN  ngrams' = [ngrams EXCEPT !.rolling = [called |-> TRUE, ok |-> r.ok, set |-> r.set]]
    /\ UNCHANGED <<overflow_checks, text, n, fx_collide, rollinghash,
                   jaccardVars, streamVars, scanVars>>

NextNgram == CallNgram \/ CallNgramRolling

SpecNgram == InitNgram /\ [][NextNgram]_vars

(***************************************************************************)
(* Spec: the three scanners called one after the other on the same         *)
(* document, query, width and threshold.  A call that panics is recorded   *)
(* as "panic" and the next call is made.                                   *)
(***************************************************************************)
NextCall == [fingerprint |-> "naive", naive |-> "fx", fx |-> "rolling", rolling |-> "done"]

\* The n-token windows of a sequence.
Windows(seq, width) == {SubSeq(seq, i, i + width - 1) : i \in 1..(Len(seq) - width + 1)}
Symbols(w) == [k \in DOMAIN w |-> as_u64(w[k])]

\* The fingerprint sets the prefiltered scanners are called with: the query's
\* own (ngram / ngram_rolling), the empty set, or a set holding the
\* fingerprint of every window of the document (unrelated or colliding
\* fingerprints: every position hits).
GivenSet(kind, rolling) ==
    IF kind = "ngram"
    THEN (IF rolling THEN ngram_rolling(query, n) ELSE ngram(query, n))
    ELSE IF kind = "empty" THEN [ok |-> TRUE, set |-> {}]
    ELSE [ok |-> TRUE,
          set |-> IF rolling
                  THEN {get_hash(append_all(new, Symbols(w)).rh) : w \in Windows(doc, n)}
                  ELSE {fxhash(w) : w \in Windows(doc, n)}]

InitScan ==
    /\ doc \in SeqsUpTo(Tokens, MaxDocLen)
    /\ query \in SeqsUpTo(Tokens, MaxQueryLen)
    /\ n \in 1..MaxN
    /\ threshold \in Thresholds
    /\ overflow_checks \in BOOLEAN
    /\ given \in {"ngram", "empty", "all"}
    /\ fx_collide \in (IF given = "ngram" THEN BOOLEAN ELSE {FALSE})
    /\ query_ngram = NoCall /\ query_ngram_rolling = NoCall
    /\ call = "fingerprint" /\ at = "entry"
    /\ limit = 0 /\ start = 0 /\ s = 0
    /\ probed = <<>> /\ scored = <<>>
    /\ result = [v \in {"naive", "fx", "rolling"} |-> "none"]
    /\ rollinghash = new
    /\ IdleJaccard /\ IdleStream /\ IdleNgram

scanInputs == <<overflow_checks, doc, query, n, threshold, given, fx_collide,
                jaccardVars, streamVars, ngramVars>>

BuildFingerprints ==
    /\ call = "fingerprint"
    /\ LET f == GivenSet(given, FALSE)
           r == GivenSet(given, TRUE)
       IN  /\ query_ngram' = [called |-> TRUE, ok |-> f.ok, set |-> f.set]
           /\ query_ngram_rolling' = [called |-> TRUE, ok |-> r.ok, set |-> r.set]
    /\ call' = NextCall[call]
    /\ UNCHANGED <<scanInputs, at, limit, start, s, probed, scored, result, rollinghash>>

\* The running call's local state.
Frame == [call |-> call, at |-> at, limit |-> limit, start |-> start, s |-> s,
          probed |-> probed, scored |-> scored, result |-> result,
          rh |-> rollinghash]

Become(frame) ==
    \E f \in {frame} :
        /\ call' = f.call /\ at' = f.at /\ limit' = f.limit /\ start' = f.start
        /\ s' = f.s /\ probed' = f.probed /\ scored' = f.scored
        /\ result' = f.result /\ rollinghash' = f.rh
        /\ UNCHANGED <<scanInputs, query_ngram, query_ngram_rolling>>

\* return / panic: the outcome is recorded and the next call is up.
Return(f, outcome) ==
    [f EXCEPT !.result = [f.result EXCEPT ![f.call] = outcome],
              !.call = NextCall[f.call], !.at = "entry"]

\* A call starts with an empty log.
Called(f) == [f EXCEPT !.probed = <<>>, !.scored = <<>>, !.start = 0, !.s = 0,
                       !.limit = 0, !.rh = new]

\* for start in 0..doc.len() - query.len(): the range's end, or the panic.
Enter(f, loop) ==
    Only({IF ~d.ok THEN Return(f, "panic")
          ELSE [f EXCEPT !.limit = d.val, !.start = 0, !.at = loop] :
             d \in {UsizeSub(Len(doc), Len(query))}})

\* weighted_jaccard(&query, &doc[j..j + query.len()]) >= threshold at outer
\* position f.start: the panic, the return of true, or the frame `continue`
\* the loop goes on with.
Score(f, j, continue) ==
    Only({IF ~w.ok THEN Return(f, "panic")
          ELSE Only({Only({IF F64Ge(sm, threshold)
                           THEN Return([f EXCEPT !.scored = log], "true")
                           ELSE [continue EXCEPT !.scored = log] :
                              log \in {Append(f.scored,
                                              [p |-> f.start, j |-> j, sim |-> sm])}}) :
                        sm \in {weighted_jaccard(query, w.val)}}) :
             w \in {Slice(doc, j, j + Len(query))}})

(* has_doc_duplicate_naive *)
NaiveEntry ==
    /\ call = "naive" /\ at = "entry"
    /\ Become(Enter(Called(Frame), "loop"))

NaiveAdvance(f) == [f EXCEPT !.start = f.start + 1]

NaiveLoop ==
    /\ call = "naive" /\ at = "loop"
    /\ Become(IF ~UsizeLess(start, limit) THEN Return(Frame, "false")
              ELSE Score(Frame, start, NaiveAdvance(Frame)))

(* has_doc_duplicate *)
\* The mutant: the clamp is left out of the inner range's start.
inner_start_unclamped(st) == st - Len(query) + n

\* max(0, start as i32 - query.len() as i32 + n as i32) as usize
inner_start(st) == Max(0, st - Len(query) + n)

\* The mutant: the pseudo-code's range(.., i), which leaves out i itself.
inner_end_exclusive(st) == st

\* The mutant: the inner range runs one offset past the scan position.
inner_end_past(st) == st + 2

\* for s in inner_start..(start + 1)
inner_end(st) == st + 1

NextWindow(f) == [f EXCEPT !.s = f.s + 1]

\* The hit or the miss at position f.start: on a miss the frame `miss` the
\* loop goes on with, on a hit the inner loop from inner_start.
Probe(f, hit, miss) ==
    Only({Only({IF ~h THEN [miss EXCEPT !.probed = log]
                ELSE [f EXCEPT !.probed = log, !.s = inner_start(f.start),
                               !.at = "score"] :
                   log \in {Append(f.probed, [p |-> f.start, hit |-> h])}}) :
             h \in {hit}})

FxEntry ==
    /\ call = "fx" /\ at = "entry"
    /\ Become(IF ~query_ngram.ok THEN Return(Called(Frame), "nocall")
              ELSE Enter(Called(Frame), "probe"))

FxAdvance(f) == [f EXCEPT !.start = f.start + 1, !.at = "probe"]

FxProbe ==
    /\ call = "fx" /\ at = "probe"
    /\ Become(IF ~UsizeLess(start, limit) THEN Return(Frame, "false")
              ELSE Only({IF ~w.ok THEN Return(Frame, "panic")
                         ELSE Probe(Frame, fxhash(w.val) \in query_ngram.set, FxAdvance(Frame)) :
                            w \in {Slice(doc, start, start + n)}}))

FxScore ==
    /\ call = "fx" /\ at = "score"
    /\ Become(IF s < inner_end(start) THEN Score(Frame, s, NextWindow(Frame))
              ELSE FxAdvance(Frame))

(* has_doc_duplicate_rolling *)
\* doc[i]: [ok, val]; ok = FALSE is the index panic.
Index(seq, i) ==
    IF i >= 0 /\ i < Len(seq) THEN [ok |-> TRUE, val |-> seq[i + 1]]
    ELSE [ok |-> FALSE, val |-> 0]

\* rollinghash.slide(doc[start] as u64, doc[start + n] as u64) and the next
\* position, or the panic.
RollingAdvance(f) ==
    Only({IF ~old.ok \/ ~nw.ok THEN Return(f, "panic")
          ELSE Only({IF ~r.ok THEN Return(f, "panic")
                     ELSE [f EXCEPT !.rh = r.rh, !.start = f.start + 1, !.at = "probe"] :
                        r \in {slide(f.rh, as_u64(old.val), as_u64(nw.val))}}) :
             old \in {Index(doc, f.start)}, nw \in {Index(doc, f.start + n)}})

RollingEntry ==
    /\ call = "rolling" /\ at = "entry"
    /\ Become(IF ~query_ngram_rolling.ok THEN Return(Called(Frame), "nocall")
              ELSE Only({IF ~w.ok THEN Return(Called(Frame), "panic")
                         ELSE Only({IF ~r.ok THEN Return(Called(Frame), "panic")
                                    ELSE Enter([Called(Frame) EXCEPT !.rh = r.rh], "probe") :
                                       r \in {append_all(new, Symbols(w.val))}}) :
                            w \in {Slice(doc, 0, n)}}))

RollingProbe ==
    /\ call = "rolling" /\ at = "probe"
    /\ Become(IF ~UsizeLess(start, limit) THEN Return(Frame, "false")
              ELSE Probe(Frame, get_hash(rollinghash) \in query_ngram_rolling.set,
                         RollingAdvance(Frame)))

RollingScore ==
    /\ call = "rolling" /\ at = "score"
    /\ Become(IF s < inner_end(start) THEN Score(Frame, s, NextWindow(Frame))
              ELSE RollingAdvance(Frame))

Next ==
    \/ BuildFingerprints
    \/ NaiveEntry \/ NaiveLoop
    \/ FxEntry \/ FxProbe \/ FxScore
    \/ RollingEntry \/ RollingProbe \/ RollingScore

Spec == InitScan /\ [][Next]_vars

(***************************************************************************)
(* The claims.                                                             *)
(***************************************************************************)
Range(A) == {A[i] : i \in DOMAIN A}
Count(A, t) == Cardinality({i \in DOMAIN A : A[i] = t})
SameMultiset(A, B) == \A t \in Range(A) \cup Range(B) : Count(A, t) = Count(B, t)
\* sum over the tokens t occurring in both of min(count_A(t), count_B(t))
InterWeight(A, B) ==
    Cardinality({p \in (Range(A) \cap Range(B)) \X (1..Len(A)) :
                    p[2] <= Count(A, p[1]) /\ p[2] <= Count(B, p[1])})
IsOne(f) == f[1] = f[2]

LenD == Len(doc)
LenQ == Len(query)
\* The window d[j .. j + len(q)], j counted from 0.
Window(j) == SubSeq(doc, j + 1, j + LenQ)
\* The n-token run of the document at position p, counted from 0.
Run(pos) == SubSeq(doc, pos + 1, pos + n)
\* The weighted Jaccard score of A and B is >= th.
ScoreGe(A, B, th) ==
    LET I == InterWeight(A, B)
        U == Len(A) + Len(B) - I
    IN  IF U = 0 THEN th[1] <= 0 ELSE I * th[2] >= th[1] * U
\* The weighted Jaccard score of A and B is the fraction f.
ScoreIs(A, B, f) ==
    LET I == InterWeight(A, B)
        U == Len(A) + Len(B) - I
    IN  f[2] > 0 /\ (IF U = 0 THEN f[1] = 0 ELSE f[1] * U = I * f[2])
SomeWindowMatches == \E j \in 0..(LenD - LenQ) : ScoreGe(query, Window(j), threshold)
\* Some window that scores >= threshold holds an n-token run of the query.
SomeMatchSharesNgram ==
    \E j \in 0..(LenD - LenQ) :
        /\ ScoreGe(query, Window(j), threshold)
        /\ \E i \in j..(j + LenQ - n) : Run(i) \in Windows(query, n)
ValidWidth == 1 <= n /\ n <= LenQ /\ LenQ <= LenD
\* The from-scratch rolling fingerprint of a window.
RollingFingerprint(w) == get_hash(append_all(new, Symbols(w)).rh)
NoCollision ==
    \A w1, w2 \in Windows(doc, n) \cup Windows(query, n) :
        w1 # w2 => /\ fxhash(w1) # fxhash(w2)
                   /\ RollingFingerprint(w1) # RollingFingerprint(w2)

\* C1: with len(d) >= len(q) >= 1, has_doc_duplicate_naive returns true exactly
\* when some window d[j .. j+len(q)], j in 0 ..= len(d)-len(q), scores >=
\* threshold.
C1_NaiveTrueIffSomeWindowMatches ==
    (result.naive # "none" /\ LenD >= LenQ /\ LenQ >= 1)
        => (result.naive = "true" <=> SomeWindowMatches)

\* C2: with 1 <= n <= len(q) <= len(d), when the naive scan returns true and a
\* window scoring >= threshold holds an n-gram of the query, both prefiltered
\* scans (called with ngram(q, n) and ngram_rolling(q, n)) return true.
C2_PrefilteredFindSharedNgram ==
    (given = "ngram" /\ ValidWidth /\ result.naive = "true" /\ SomeMatchSharesNgram)
        => /\ result.fx \in {"none", "true"}
           /\ result.rolling \in {"none", "true"}

\* C3: with len(d) < len(q) each scanner returns false, without a fault.
C3_ShortDocumentReturnsFalse ==
    LenD < LenQ => \A v \in DOMAIN result : result[v] \in {"none", "nocall", "false"}

\* C4: with n > len(q) and len(q) <= len(d), both prefiltered scans return false
\* for any fingerprint set, without an out-of-range slice or index.
C4_WideWidthReturnsFalse ==
    (n > LenQ /\ LenQ <= LenD)
        => /\ result.fx \in {"none", "nocall", "false"}
           /\ result.rolling \in {"none", "nocall", "false"}

\* C5: for a text shorter than the width n >= 1, ngram and ngram_rolling each
\* return the empty fingerprint set, without a fault.
C5_ShortTextGivesEmptySet ==
    \A f \in {"fx", "rolling"} :
        (ngrams[f].called /\ n >= 1 /\ Len(text) < n)
            => (ngrams[f].ok /\ ngrams[f].set = {})

\* C6: weighted_jaccard(A, B) is I / U with I the sum of the smaller counts of
\* the shared tokens and U = len(A) + len(B) - I, and 0 when U = 0.
C6_JaccardIsInterOverUnion ==
    sim.called =>
        LET I == InterWeight(text1, text2)
            U == Len(text1) + Len(text2) - I
        IN  IF U = 0 THEN sim.val[1] = 0 /\ sim.val[2] > 0
            ELSE sim.val[2] > 0 /\ sim.val[1] * U = I * sim.val[2]

C6_Witness ==
    /\ sim.called
    /\ text1 = <<1, 1, 2, 3>> /\ text2 = <<1, 2, 2, 2>>
    /\ sim.val[1] * 6 = 2 * sim.val[2]

\* C7 as claimed: weighted_jaccard(A, B) = 1.0 exactly when A and B are the
\* same multiset, the two empty spans included.
C7_OneIffSameMultiset ==
    sim.called => (IsOne(sim.val) <=> SameMultiset(text1, text2))

\* C7 as amended: for spans that are not both empty, weighted_jaccard(A, B) =
\* 1.0 exactly when A and B are the same multiset; for two empty spans it is 0.0.
C7_OneIffSameMultisetUnlessEmpty ==
    sim.called =>
        IF text1 = <<>> /\ text2 = <<>> THEN sim.val[1] = 0 /\ sim.val[2] > 0
        ELSE IsOne(sim.val) <=> SameMultiset(text1, text2)

C7_Witness ==
    /\ sim.called
    /\ Len(text1) >= 3 /\ text1 # text2 /\ SameMultiset(text1, text2)
    /\ Cardinality(Range(text1)) < Len(text1)
    /\ IsOne(sim.val)

\* C8: a RollingHash primed with x[0..n-1] and slid k times holds the hash of a
\* fresh RollingHash primed with x[k..k+n-1]; slide leaves window_size and
\* the stored power as the priming left them.
C8_SlideEqualsFresh ==
    x # <<>> =>
        /\ ~rh_fault
        /\ appended = n =>
              LET fresh == append_all(new, SubSeq(x, slid + 1, slid + n))
                  primed == append_all(new, SubSeq(x, 1, n))
              IN  /\ fresh.ok
                  /\ get_hash(rollinghash) = get_hash(fresh.rh)
                  /\ rollinghash.window_size = n
                  /\ rollinghash.base_power = primed.rh.base_power

\* C9: with 1 <= n <= len(q) <= len(d) and no collision among the n-token
\* windows of d and q, the rolling scan returns what the direct-hash scan
\* returns, and at every scan position its accumulator holds the from-scratch
\* rolling fingerprint of d[start .. start+n].
C9_RollingAgreesWithDirect ==
    (given = "ngram" /\ ValidWidth /\ NoCollision)
        => /\ call = "done" => result.rolling = result.fx
           /\ (call = "rolling" /\ at = "probe" /\ UsizeLess(start, limit))
                 => get_hash(rollinghash) = RollingFingerprint(Run(start))

\* The call the log (probed, scored) belongs to.
Logged ==
    IF at # "entry" THEN call
    ELSE IF call = "rolling" THEN "fx" ELSE IF call = "done" THEN "rolling" ELSE "none"
\* The first offset scored at a hit at position p.
Lo(pos) == Max(0, pos - LenQ + n)
HitAt(pos) == \E k \in DOMAIN probed : probed[k] = [p |-> pos, hit |-> TRUE]
Scored(pos, j) == \E k \in DOMAIN scored : scored[k].p = pos /\ scored[k].j = j

RECURSIVE TimesMod(_, _, _)
TimesMod(a, b, m) ==
    IF b = 0 THEN 0
    ELSE Only({(((2 * half) % m) + ((b % 2) * a)) % m : half \in {TimesMod(a, b \div 2, m)}})

\* The exact value of sum symbols[i] * base^(len - i) mod modulo: what the
\* accumulator holds over a window when no intermediate wraps.
RECURSIVE ExactHash(_, _)
ExactHash(h, symbols) ==
    IF symbols = <<>> THEN h
    ELSE ExactHash((TimesMod(h, base, modulo) + BigMod(symbols[1], modulo)) % modulo,
                   Tail(symbols))

\* C11: for symbols cast from 32-bit signed tokens, negative ones included, no
\* intermediate of append or slide leaves the unsigned 64-bit range at any
\* reachable accumulator state (no panic, no wrap), and the stored hash is
\* the exact modular value and stays below modulo.
C11_NoIntermediateOverflow ==
    x # <<>> =>
        /\ ~rh_fault
        /\ appended < n => append(rollinghash, x[appended + 1]).fits
        /\ (appended = n /\ slid + n < Len(x))
              => slide(rollinghash, x[slid + 1], x[slid + n + 1]).fits
        /\ rollinghash.hash >= 0 /\ rollinghash.hash < modulo
        /\ rollinghash.hash =
              ExactHash(0, IF appended < n THEN SubSeq(x, 1, appended)
                           ELSE SubSeq(x, slid + 1, slid + n))

\* C12: with 1 <= n <= len(q) <= len(d) and any fingerprint set (the query's
\* own, with or without collisions, the empty one, or one that makes every
\* position hit), a prefiltered scan that returns true has a window
\* d[j .. j+len(q)] scoring >= threshold, and the naive scan returns true on
\* the same document, query and threshold.
C12_NoFalsePositive ==
    ValidWidth =>
        \A v \in {"fx", "rolling"} :
            result[v] = "true" => (SomeWindowMatches /\ result.naive = "true")

\* Both prefiltered scans return true at a hit whose n-token run is not an
\* n-gram of the query (a fingerprint unrelated to the query's).
C12_Witness ==
    /\ call = "done" /\ ValidWidth /\ given = "all"
    /\ result.fx = "true" /\ result.rolling = "true" /\ result.naive = "true"
    /\ scored # <<>>
    /\ Run(scored[Len(scored)].p) \notin Windows(query, n)
    /\ SomeWindowMatches

====
